---- MODULE Spec2Model ----
(***************************************************************************)
(* The Ben Venturing API (src/main.py, src/schemas.py): a FastAPI backend  *)
(* over four document collections.  Each HTTP request is a process that    *)
(* runs its handler one storage operation at a time, so that requests      *)
(* interleave the way the hosting runtime lets them.  The document store   *)
(* (module `database`: db, get_documents, create_document) is not part of  *)
(* the sources at hand and is modelled from its contract.                  *)
(***************************************************************************)
EXTENDS Integers, Sequences, FiniteSets, TLC

\* Number of HTTP requests a behaviour serves (each request runs once).
MaxRequests == 2

Reqs == 1..MaxRequests

\* Python's None; also the value of a local that is not bound yet.
None == "None"

Min(a, b) == IF a <= b THEN a ELSE b

(***************************************************************************)
(* src/schemas.py: the record kinds.                                       *)
(***************************************************************************)

\* A parsed JSON value of a request body.
JStr(s) == [t |-> "string", v |-> s]
JNull == [t |-> "null", v |-> "null"]
JNum(s) == [t |-> "number", v |-> s]

\* Mutation: a required field declared Optional[str] = None.
StrFieldOptional(body, f) ==
    IF f \notin DOMAIN body THEN <<TRUE, None>>
    ELSE IF body[f].t \in {"null", "string"} THEN <<TRUE, body[f].v>>
    ELSE <<FALSE, None>>

\* One field's validation: <<accepted, value>>.  `required` fields (no default)
\* must be present; a `str` field accepts a JSON string only, an Optional[str]
\* field also null; an absent optional field takes its default.
StrField(body, f) ==
    IF f \in DOMAIN body /\ body[f].t = "string" THEN <<TRUE, body[f].v>> ELSE <<FALSE, None>>

OptStrField(body, f, default) ==
    IF f \notin DOMAIN body THEN <<TRUE, default>>
    ELSE IF body[f].t = "null" THEN <<TRUE, None>>
    ELSE IF body[f].t = "string" THEN <<TRUE, body[f].v>>
    ELSE <<FALSE, None>>

\* Mutation: status declared without its default.
InquiryStatusNoDefault == None

\* Inquiry.status: Optional[str] = Field(default="new")
InquiryStatusDefault == "new"

\* Lead.source: Optional[str] = Field(default="chatbot")
LeadSourceDefault == "chatbot"

\* class Inquiry(BaseModel), one validation result per declared field.
InquiryFields(body) ==
    [id          |-> OptStrField(body, "id", None),
     name        |-> StrField(body, "name"),
     email       |-> StrField(body, "email"),
     projectType |-> OptStrField(body, "projectType", None),
     budget      |-> OptStrField(body, "budget", None),
     message     |-> OptStrField(body, "message", None),
     date        |-> OptStrField(body, "date", None),
     status      |-> OptStrField(body, "status", InquiryStatusDefault)]

\* class Lead(BaseModel)
LeadFields(body) ==
    [email  |-> StrField(body, "email"),
     source |-> OptStrField(body, "source", LeadSourceDefault),
     note   |-> OptStrField(body, "note", None)]

\* The outcome of validating a body against a model: the record of the declared
\* fields (undeclared keys are ignored), or the set of offending fields.
Validated(fields) ==
    LET bad == {f \in DOMAIN fields : ~fields[f][1]}
    IN  IF bad = {} THEN [ok |-> TRUE, value |-> [f \in DOMAIN fields |-> fields[f][2]], errors |-> {}]
        ELSE [ok |-> FALSE, value |-> [f \in {} |-> None], errors |-> bad]

\* `payload: Inquiry` / `payload: Lead`: the framework validates the body
\* against the parameter's model before the handler body runs.
ValidateBody(method, body) ==
    IF method = "create_inquiry" THEN Validated(InquiryFields(body))
    ELSE Validated(LeadFields(body))

Lesson(id, title, type) == [id |-> id, title |-> title, type |-> type, duration |-> None]

Module(id, title, lessons) == [id |-> id, title |-> title, lessons |-> lessons]

(***************************************************************************)
(* src/main.py: the built-in sample data.                                  *)
(***************************************************************************)
SAMPLE_COURSES ==
    << [id          |-> "launch-your-life",
        title       |-> "Launch Your Life - AI & Freelance Foundations",
        description |-> "Kickstart a freedom-first career with AI, content, and client work.",
        price       |-> "USD 199",
        slug        |-> "launch-your-life",
        modules     |->
            << Module("m1", "Mindset & Faith",
                      << Lesson("intro", "Intro", "video"),
                         Lesson("faith-in-business", "Faith in Business", "article") >>),
               Module("m2", "AI Tools & Workflow",
                      << Lesson("ai-basics", "AI Basics", "video"),
                         Lesson("automation-playbook", "Automation Playbook", "article") >>),
               Module("m3", "Content & Monetization",
                      << Lesson("ugc-strategy", "UGC Strategy", "video"),
                         Lesson("pricing-services", "Pricing Services", "article") >>) >>,
        instructor  |-> "Ben",
        thumbnail   |-> None] >>

SAMPLE_PORTFOLIO ==
    << [id            |-> "p1",
        title         |-> "Resort Investment Campaign",
        category      |-> "Photography",
        client        |-> None,
        date          |-> None,
        media         |-> << >>,
        caseStudyText |-> "Campaign increased bookings by 18%",
        metrics       |-> [engagement |-> "+37% CTR"],
        slug          |-> "resort-investment-campaign"],
       [id            |-> "p2",
        title         |-> "Aetherflo Demo Site",
        category      |-> "Web",
        client        |-> None,
        date          |-> None,
        media         |-> << >>,
        caseStudyText |-> "Demo bookings via website",
        metrics       |-> [conversion |-> "demo bookings"],
        slug          |-> "aetherflo-demo-site"] >>

(***************************************************************************)
(* State.                                                                  *)
(***************************************************************************)
VARIABLES
    db,             \* the process-wide store handle: None or "handle"
    DATABASE_URL,   \* whether the environment sets DATABASE_URL
    DATABASE_NAME,  \* whether the environment sets DATABASE_NAME
    store,          \* collection name -> the sequence of its documents, in storage order
    nextId,         \* the store's generator of document identifiers
    req             \* request -> its handler's position and locals

vars == <<db, DATABASE_URL, DATABASE_NAME, store, nextId, req>>

Collections == {"course", "portfolioitem", "inquiry", "lead"}

CollectionOrder == <<"course", "portfolioitem", "inquiry", "lead">>

ListMethods == {"list_courses", "list_portfolio"}

PostMethods == {"create_inquiry", "capture_lead"}

\* str(ObjectId): the identifier as a string.
Str(oid) == ToString(oid)

\* A document's declared fields, without the generated identifier.
Fields(d) == [f \in DOMAIN d \ {"_id"} |-> d[f]]

(***************************************************************************)
(* The document store client (module `database`), from its contract.       *)
(***************************************************************************)
NoError == "ok"

\* What a storage operation raises: every operation fails fast while the
\* handle is unavailable; otherwise the backend accepts it (backendOk) or
\* rejects it with the operation's error.
Raised(error, backendOk) ==
    IF db = None THEN "StorageUnavailable"
    ELSE IF backendOk THEN NoError
    ELSE error

EmptyFilter == << >>

Matches(d, filter) == \A f \in DOMAIN filter : f \in DOMAIN d /\ d[f] = filter[f]

\* get_documents(collection, filter, limit): the matching documents in storage
\* order, capped at `limit`; a limit of 0 stands for "no limit given".
get_documents(collection, filter, limit) ==
    LET matching == SelectSeq(store[collection], LAMBDA d : Matches(d, filter))
    IN  IF limit = 0 THEN matching ELSE SubSeq(matching, 1, Min(limit, Len(matching)))

\* create_document(collection, data): the store after appending the document
\* under a newly generated identifier.
create_document(collection, data) ==
    [store EXCEPT ![collection] = Append(@, ("_id" :> nextId) @@ data)]

\* db.list_collection_names(): the collections that exist, i.e. hold a document.
list_collection_names == SelectSeq(CollectionOrder, LAMBDA c : store[c] # << >>)

(***************************************************************************)
(* src/main.py: the handlers.                                              *)
(***************************************************************************)

\* The response a finished request carries; NoResponse until then.
NoResponse == [code |-> 0]

\* Mutation: the except clause swallows the error and answers an empty list.
SwallowException(e) == [code |-> 200, items |-> << >>]

\* except Exception as e: raise HTTPException(status_code=500, detail=str(e))
HTTPException500(e) == [code |-> 500, detail |-> e]

\* The framework's answer to a body that fails validation.
ValidationErrorResponse(errors) == [code |-> 422, errors |-> errors]

\* The collection and the candidate documents a list endpoint seeds and reads.
SeedCollection(method) == IF method = "list_courses" THEN "course" ELSE "portfolioitem"

SeedDocuments(method) == IF method = "list_courses" THEN SAMPLE_COURSES ELSE SAMPLE_PORTFOLIO

\* Mutation: capture_lead copied from create_inquiry with the collection name kept.
CreateCollectionInquiryOnly(method) == "inquiry"

\* The collection a create endpoint writes.
CreateCollection(method) == IF method = "create_inquiry" THEN "inquiry" ELSE "lead"

\* Mutation: the emptiness check dropped.
ShouldSeedAlways(existing) == TRUE

\* Mutation: the emptiness check inverted (`if existing`).
ShouldSeedInverted(existing) == existing # << >>

\* seed_if_empty: `if not existing`
ShouldSeed(existing) == existing = << >>

\* for d in docs: d["_id"] = str(d.get("_id")); return {"items": docs}
ListResponse(docs) ==
    [code |-> 200, items |-> [k \in 1..Len(docs) |-> [docs[k] EXCEPT !["_id"] = Str(@)]]]

\* return {"status": "ok", "id": new_id}
CreateResponse(new_id) == [code |-> 200, status |-> "ok", id |-> new_id]

\* str(e)[:50]
Truncate50(s) == SubSeq(s, 1, Min(50, Len(s)))

\* Mutation: db.list_collection_names() called outside any try block.
test_database_unguarded(listError) ==
    IF db # None /\ listError # NoError
    THEN [code |-> 500, detail |-> listError]
    ELSE [code              |-> 200,
          backend           |-> "Running",
          database          |-> IF db # None THEN "Connected & Working"
                                ELSE "Available but not initialized",
          database_url      |-> IF DATABASE_URL THEN "Set" ELSE "Not Set",
          database_name     |-> IF DATABASE_NAME THEN "Set" ELSE "Not Set",
          connection_status |-> IF db # None THEN "Connected" ELSE "Not Connected",
          collections       |-> IF db # None
                                THEN SubSeq(list_collection_names, 1, Min(10, Len(list_collection_names)))
                                ELSE << >>]

\* test_database: the diagnostic response.  listError is what
\* db.list_collection_names() raises (NoError when it returns).
test_database(listError) ==
    LET database ==
            IF db # None
            THEN IF listError = NoError THEN "Connected & Working"
                 ELSE "Connected but Error: " \o Truncate50(listError)
            ELSE "Available but not initialized"
        collections ==
            IF db # None /\ listError = NoError
            THEN SubSeq(list_collection_names, 1, Min(10, Len(list_collection_names)))
            ELSE << >>
    IN  [code              |-> 200,
         backend           |-> "Running",
         database          |-> database,
         database_url      |-> IF DATABASE_URL THEN "Set" ELSE "Not Set",
         database_name     |-> IF DATABASE_NAME THEN "Set" ELSE "Not Set",
         connection_status |-> IF db # None THEN "Connected" ELSE "Not Connected",
         collections       |-> collections]

(***************************************************************************)
(* Request bodies the model posts.                                         *)
(***************************************************************************)
InquiryBodies ==
    { [name |-> JStr("Ann"), email |-> JStr("ann@x.io")],
      [name |-> JStr("Ann"), email |-> JStr("ann@x.io"), status |-> JStr("open"),
       message |-> JStr("hi"), extra |-> JStr("ignored")],
      [name |-> JStr("Bob"), email |-> JStr("bob@x.io"), status |-> JNull, id |-> JStr("i1")],
      [email |-> JStr("ann@x.io")],
      [name |-> JNum("7"), email |-> JStr("ann@x.io")],
      [name |-> JStr("Ann"), email |-> JStr("ann@x.io"), budget |-> JNum("500")] }

LeadBodies ==
    { [email |-> JStr("a@b.com")],
      [email |-> JStr("a@b.com"), source |-> JStr("form"), note |-> JStr("call me")],
      [source |-> JStr("form")],
      [email |-> JNull] }

NoBody == [none |-> JNull]

IdleRequest ==
    [method |-> None, pc |-> "idle", body |-> NoBody, payload |-> NoBody,
     existing |-> << >>, i |-> 0, exc |-> None, resp |-> NoResponse]

(***************************************************************************)
(* Init: the process has started; the handle is present only if both       *)
(* configuration values are set and the connection was made.               *)
(***************************************************************************)
Init ==
    /\ DATABASE_URL \in BOOLEAN
    /\ DATABASE_NAME \in BOOLEAN
    /\ db \in (IF DATABASE_URL /\ DATABASE_NAME THEN {None, "handle"} ELSE {None})
    /\ store = [c \in Collections |-> << >>]
    /\ nextId = 1
    /\ req = [r \in Reqs |-> IdleRequest]

\* Requests are numbered in the order they arrive.
Arrives(r) == req[r].pc = "idle" /\ (IF r = 1 THEN TRUE ELSE req[r - 1].pc # "idle")

Set(r, new) == req' = [req EXCEPT ![r] = new]

\* GET /api/courses, GET /api/portfolio: the handler is entered.
ReceiveList(r, method) ==
    /\ Arrives(r)
    /\ method \in ListMethods
    /\ Set(r, [req[r] EXCEPT !.method = method, !.pc = "probe"])
    /\ UNCHANGED <<db, DATABASE_URL, DATABASE_NAME, store, nextId>>

\* GET /test: the handler is entered.
ReceiveTest(r) ==
    /\ Arrives(r)
    /\ Set(r, [req[r] EXCEPT !.method = "test_database", !.pc = "test"])
    /\ UNCHANGED <<db, DATABASE_URL, DATABASE_NAME, store, nextId>>

\* POST /api/inquiries, POST /api/leads: the body is validated against the
\* handler's model; a rejected body is answered without entering the handler.
ReceivePost(r, method, body) ==
    /\ Arrives(r)
    /\ method \in PostMethods
    /\ LET v == ValidateBody(method, body)
       IN  IF v.ok
           THEN Set(r, [req[r] EXCEPT !.method = method, !.body = body,
                                      !.payload = v.value, !.pc = "insert"])
           ELSE Set(r, [req[r] EXCEPT !.method = method, !.body = body, !.pc = "done",
                                      !.resp = ValidationErrorResponse(v.errors)])
    /\ UNCHANGED <<db, DATABASE_URL, DATABASE_NAME, store, nextId>>

\* The handler's except clause: the request ends with the 500 response.
Fail(r, e) == Set(r, [req[r] EXCEPT !.pc = "done", !.exc = e, !.resp = HTTPException500(e)])

\* seed_if_empty: existing = get_documents(collection, {}, limit=1); if not existing
SeedProbe(r, backendOk) ==
    /\ req[r].pc = "probe"
    /\ LET e == Raised("StorageReadError", backendOk)
           existing == get_documents(SeedCollection(req[r].method), EmptyFilter, 1)
       IN  IF e # NoError THEN Fail(r, e)
           ELSE IF ShouldSeed(existing) /\ Len(SeedDocuments(req[r].method)) > 0
           THEN Set(r, [req[r] EXCEPT !.existing = existing, !.i = 1, !.pc = "seed"])
           ELSE Set(r, [req[r] EXCEPT !.existing = existing, !.pc = "query"])
    /\ UNCHANGED <<db, DATABASE_URL, DATABASE_NAME, store, nextId>>

\* seed_if_empty: for doc in documents: create_document(collection, doc)
SeedInsert(r, backendOk) ==
    /\ req[r].pc = "seed"
    /\ LET e == Raised("StorageWriteError", backendOk)
           documents == SeedDocuments(req[r].method)
       IN  IF e # NoError
           THEN Fail(r, e) /\ UNCHANGED <<store, nextId>>
           ELSE /\ store' = create_document(SeedCollection(req[r].method), documents[req[r].i])
                /\ nextId' = nextId + 1
                /\ Set(r, [req[r] EXCEPT !.i = @ + 1,
                                         !.pc = IF req[r].i = Len(documents) THEN "query" ELSE "seed"])
    /\ UNCHANGED <<db, DATABASE_URL, DATABASE_NAME>>

\* Mutation: the final query copied from the probe, limit=1 included.
QueryLimitOne(r, backendOk) ==
    /\ req[r].pc = "query"
    /\ LET e == Raised("StorageReadError", backendOk)
           docs == get_documents(SeedCollection(req[r].method), EmptyFilter, 1)
       IN  IF e # NoError THEN Fail(r, e)
           ELSE Set(r, [req[r] EXCEPT !.pc = "done", !.resp = ListResponse(docs)])
    /\ UNCHANGED <<db, DATABASE_URL, DATABASE_NAME, store, nextId>>

\* list_courses / list_portfolio: docs = get_documents(collection); return {"items": docs}
Query(r, backendOk) ==
    /\ req[r].pc = "query"
    /\ LET e == Raised("StorageReadError", backendOk)
           docs == get_documents(SeedCollection(req[r].method), EmptyFilter, 0)
       IN  IF e # NoError THEN Fail(r, e)
           ELSE Set(r, [req[r] EXCEPT !.pc = "done", !.resp = ListResponse(docs)])
    /\ UNCHANGED <<db, DATABASE_URL, DATABASE_NAME, store, nextId>>

\* create_inquiry / capture_lead: new_id = create_document(collection, payload)
Create(r, backendOk) ==
    /\ req[r].pc = "insert"
    /\ LET e == Raised("StorageWriteError", backendOk)
       IN  IF e # NoError
           THEN Fail(r, e) /\ UNCHANGED <<store, nextId>>
           ELSE /\ store' = create_document(CreateCollection(req[r].method), req[r].payload)
                /\ nextId' = nextId + 1
                /\ Set(r, [req[r] EXCEPT !.pc = "done", !.resp = CreateResponse(Str(nextId))])
    /\ UNCHANGED <<db, DATABASE_URL, DATABASE_NAME>>

\* test_database: the whole handler (it issues at most one storage operation).
Test(r, backendOk) ==
    /\ req[r].pc = "test"
    /\ Set(r, [req[r] EXCEPT !.pc = "done",
                             !.resp = test_database(Raised("StorageReadError", backendOk))])
    /\ UNCHANGED <<db, DATABASE_URL, DATABASE_NAME, store, nextId>>

\* An actor outside this system deletes every document of a collection.
ExternalDelete(c) ==
    /\ store[c] # << >>
    /\ store' = [store EXCEPT ![c] = << >>]
    /\ UNCHANGED <<db, DATABASE_URL, DATABASE_NAME, nextId, req>>

(***************************************************************************)
(* Specifications.                                                         *)
(***************************************************************************)
DoReceiveList == \E r \in Reqs, m \in ListMethods : ReceiveList(r, m)

DoReceiveTest == \E r \in Reqs : ReceiveTest(r)

DoReceiveInquiry == \E r \in Reqs, b \in InquiryBodies : ReceivePost(r, "create_inquiry", b)

DoReceiveLead == \E r \in Reqs, b \in LeadBodies : ReceivePost(r, "capture_lead", b)

DoSeedProbe == \E r \in Reqs, ok \in BOOLEAN : SeedProbe(r, ok)

DoSeedInsert == \E r \in Reqs, ok \in BOOLEAN : SeedInsert(r, ok)

DoQuery == \E r \in Reqs, ok \in BOOLEAN : Query(r, ok)

DoCreate == \E r \in Reqs, ok \in BOOLEAN : Create(r, ok)

DoTest == \E r \in Reqs, ok \in BOOLEAN : Test(r, ok)

\* Concurrent requests; any storage operation may fail.
Next ==
    \/ DoReceiveList
    \/ DoReceiveTest
    \/ DoReceiveInquiry
    \/ DoReceiveLead
    \/ DoSeedProbe
    \/ DoSeedInsert
    \/ DoQuery
    \/ DoCreate
    \/ DoTest

Spec == Init /\ [][Next]_vars

DoExternalDelete == \E c \in Collections : ExternalDelete(c)

\* The store handle is live and the backend rejects nothing.
InitWorking == Init /\ db = "handle"

NextWorking ==
    \/ DoReceiveList
    \/ DoReceiveTest
    \/ DoReceiveInquiry
    \/ DoReceiveLead
    \/ \E r \in Reqs : SeedProbe(r, TRUE)
    \/ \E r \in Reqs : SeedInsert(r, TRUE)
    \/ \E r \in Reqs : Query(r, TRUE)
    \/ \E r \in Reqs : Create(r, TRUE)
    \/ \E r \in Reqs : Test(r, TRUE)

\* Concurrent requests over a working store.
SpecWorking == InitWorking /\ [][NextWorking]_vars

\* No request is in flight.
Quiet == \A r \in Reqs : req[r].pc \in {"idle", "done"}

NextSeq ==
    \/ Quiet /\ DoReceiveList
    \/ Quiet /\ DoReceiveTest
    \/ Quiet /\ DoReceiveInquiry
    \/ Quiet /\ DoReceiveLead
    \/ \E r \in Reqs : SeedProbe(r, TRUE)
    \/ \E r \in Reqs : SeedInsert(r, TRUE)
    \/ \E r \in Reqs : Query(r, TRUE)
    \/ \E r \in Reqs : Create(r, TRUE)
    \/ \E r \in Reqs : Test(r, TRUE)

\* One request at a time over a working store.
SpecSeq == InitWorking /\ [][NextSeq]_vars

NextExt ==
    \/ NextSeq
    \/ DoExternalDelete

\* One request at a time over a working store whose collections an outside
\* actor may empty.
SpecExt == InitWorking /\ [][NextExt]_vars

(***************************************************************************)
(* Vocabulary of the properties.                                           *)
(***************************************************************************)
SeededCollections == {"course", "portfolioitem"}

ListEndpoint == [course |-> "list_courses", portfolioitem |-> "list_portfolio"]

Samples == [course |-> SAMPLE_COURSES, portfolioitem |-> SAMPLE_PORTFOLIO]

SampleSet(c) == {Samples[c][k] : k \in 1..Len(Samples[c])}

\* The number of stored copies of a sample document.
Copies(c, s) == Cardinality({k \in 1..Len(store[c]) : Fields(store[c][k]) = s})

IsPrefix(s, t) == Len(s) <= Len(t) /\ SubSeq(t, 1, Len(s)) = s

\* Request r is a list request on collection c that answered 200.
Served(r, c) ==
    req[r].method = ListEndpoint[c] /\ req[r].pc = "done" /\ req[r].resp.code = 200

\* Request r is a list request on c whose probe found c empty and which has
\* inserted at least one sample document since.
SeededBy(r, c) ==
    /\ req[r].method = ListEndpoint[c]
    /\ req[r].existing = << >>
    /\ req[r].i >= 2

\* C1: with one request at a time and no storage failure, once a list request has
\* been answered its collection holds exactly the sample documents, one copy of
\* each, however many list requests were served.
C1_SeededExactlyOnce ==
    \A c \in SeededCollections :
        (\E r \in Reqs : Served(r, c)) =>
            /\ Len(store[c]) = Len(Samples[c])
            /\ \A s \in SampleSet(c) : Copies(c, s) = 1

\* Two list requests on the course collection were served in sequence, the second
\* one having found the collection non-empty.
C1_Witness ==
    /\ Served(1, "course") /\ Served(2, "course")
    /\ req[2].existing # << >>
    /\ Copies("course", SAMPLE_COURSES[1]) = 1

\* C2: a collection holds more than one copy of a sample document only if two
\* list requests both found it empty and both inserted (the seeding race).
C2_DuplicatesOnlyByRace ==
    \A c \in SeededCollections :
        (\E s \in SampleSet(c) : Copies(c, s) > 1) =>
            \E r1, r2 \in Reqs : r1 # r2 /\ SeededBy(r1, c) /\ SeededBy(r2, c)

\* The race happened: both requests found the portfolio collection empty, both
\* inserted, and a sample document is stored twice.
C2_Witness ==
    /\ SeededBy(1, "portfolioitem") /\ SeededBy(2, "portfolioitem")
    /\ Copies("portfolioitem", SAMPLE_PORTFOLIO[1]) = 2

\* Some list request has inserted into collection c.
EverHeld(c) == \E q \in Reqs : req[q].method = ListEndpoint[c] /\ req[q].i >= 2

\* C3 as stated: once a collection has held a document, no probe of
\* seed_if_empty leads to seeding it again, even after the collection was emptied.
C3_NeverReseeds ==
    [][\A r \in Reqs : \A c \in SeededCollections :
          (req[r].pc = "probe" /\ req[r].method = ListEndpoint[c] /\ EverHeld(c))
              => req'[r].pc # "seed"]_vars

\* C3 amended: seed_if_empty starts seeding exactly when its probe finds the
\* collection empty at that moment, whatever the collection held before.
C3_SeedsIffEmptyAtProbe ==
    [][\A r \in Reqs : \A c \in SeededCollections :
          (req[r].pc = "probe" /\ req[r].method = ListEndpoint[c] /\ req'[r].pc # "probe")
              => (req'[r].pc = "seed" <=> store[c] = << >>)]_vars

\* The first request seeded the course collection and was answered, the collection
\* was emptied, and the second request seeded it again.
C3_Witness ==
    /\ Served(1, "course") /\ SeededBy(1, "course")
    /\ SeededBy(2, "course")
    /\ Len(store["course"]) = 1

Contains(items, s) == \E k \in 1..Len(items) : Fields(items[k]) = s

\* C4 as stated: over a working store every 200 response of a list endpoint
\* carries a non-empty items list holding every sample document.
C4_WholeSampleSet ==
    \A c \in SeededCollections : \A r \in Reqs :
        Served(r, c) =>
            /\ req[r].resp.items # << >>
            /\ \A s \in SampleSet(c) : Contains(req[r].resp.items, s)

\* Another request has inserted some, not yet all, sample documents into c.
SeedingInProgress(r, c) ==
    \E q \in Reqs \ {r} :
        req[q].method = ListEndpoint[c] /\ req[q].pc = "seed" /\ req[q].i >= 2

\* C4 amended: over a working store every 200 response of a list endpoint carries
\* a non-empty items list, and it holds every sample document unless another
\* request's seeding of that collection is still in progress when the handler queries.
C4_NonEmptyAndWholeUnlessSeeding ==
    [][\A c \in SeededCollections : \A r \in Reqs :
          (req[r].method = ListEndpoint[c] /\ req[r].pc = "query" /\ req'[r].pc = "done")
              => /\ req'[r].resp.code = 200
                 /\ req'[r].resp.items # << >>
                 /\ ~SeedingInProgress(r, c) =>
                        \A s \in SampleSet(c) : Contains(req'[r].resp.items, s)]_vars

\* A list request on the portfolio collection was answered with the first sample
\* document only, while the other request was still seeding.
C4_Witness ==
    /\ Served(2, "portfolioitem")
    /\ Len(req[2].resp.items) = 1
    /\ Contains(req[2].resp.items, SAMPLE_PORTFOLIO[1])
    /\ SeedingInProgress(2, "portfolioitem")

InquiryFieldNames ==
    {"id", "name", "email", "projectType", "budget", "message", "date", "status"}

\* A body every required field of which is a string and every optional field
\* of which is absent, null or a string.
WellFormed(body, required, optional) ==
    /\ \A f \in required : f \in DOMAIN body /\ body[f].t = "string"
    /\ \A f \in optional : f \in DOMAIN body => body[f].t \in {"null", "string"}

WellFormedInquiry(body) ==
    WellFormed(body, {"name", "email"}, InquiryFieldNames \ {"name", "email"})

WellFormedLead(body) == WellFormed(body, {"email"}, {"source", "note"})

\* The record an Inquiry body stands for: the declared fields as given, null as
\* None, an absent field as None, an absent status as "new".
ExpectedInquiry(body) ==
    [f \in InquiryFieldNames |->
        IF f \in DOMAIN body
        THEN (IF body[f].t = "null" THEN None ELSE body[f].v)
        ELSE (IF f = "status" THEN "new" ELSE None)]

\* C5: over a working store, a finished POST /api/inquiries with a valid body has
\* answered status "ok" with a non-empty identifier, and in this and every later
\* state the inquiry collection holds a document under that identifier whose
\* fields equal the validated body, defaults applied.
C5_InquiryStored ==
    \A r \in Reqs :
        (req[r].method = "create_inquiry" /\ req[r].pc = "done" /\ WellFormedInquiry(req[r].body))
            => /\ req[r].resp.code = 200
               /\ req[r].resp.status = "ok"
               /\ req[r].resp.id # ""
               /\ \E k \in 1..Len(store["inquiry"]) :
                      /\ Str(store["inquiry"][k]._id) = req[r].resp.id
                      /\ Fields(store["inquiry"][k]) = ExpectedInquiry(req[r].body)

\* An inquiry without a status was stored with status "new", and further
\* requests were served after it.
C5_Witness ==
    /\ req[1].method = "create_inquiry" /\ req[1].pc = "done" /\ req[1].resp.code = 200
    /\ "status" \notin DOMAIN req[1].body
    /\ store["inquiry"][1].status = "new"
    /\ req[2].pc = "done"

Malformed(r) ==
    \/ req[r].method = "create_inquiry" /\ ~WellFormedInquiry(req[r].body)
    \/ req[r].method = "capture_lead" /\ ~WellFormedLead(req[r].body)

\* C6: a POST request whose body fails validation is answered with a validation
\* error as it arrives: the step changes no collection, and the request is never
\* at a position from which it could insert.
C6_MalformedRejectedBeforeWrite ==
    /\ [](\A r \in Reqs : Malformed(r) => (req[r].pc = "done" /\ req[r].resp.code = 422))
    /\ [][\A r \in Reqs :
            (req[r].pc = "idle" /\ Malformed(r)')
                => (store' = store /\ nextId' = nextId)]_vars

\* An Inquiry without `name` and a Lead without `email` were both rejected and
\* nothing was stored.
C6_Witness ==
    /\ req[1].method = "create_inquiry" /\ "name" \notin DOMAIN req[1].body
    /\ req[2].method = "capture_lead" /\ "email" \notin DOMAIN req[2].body
    /\ req[1].resp.code = 422 /\ req[2].resp.code = 422
    /\ \A c \in Collections : store[c] = << >>

\* Request r has run a storage operation of its handler.
UsedStorage(r) ==
    /\ req[r].pc = "done"
    /\ \/ req[r].method \in ListMethods
       \/ req[r].method \in PostMethods /\ req[r].resp.code # 422

\* C7: a request in which a storage operation raised has ended with the 500
\* response carrying the error message (so has every request that used storage
\* while the handle is unavailable); the raising step stores nothing and the
\* request takes no further step, hence neither retries nor answers success.
C7_StorageErrorsBecome500 ==
    /\ [](\A r \in Reqs :
            /\ req[r].exc # None =>
                   (req[r].pc = "done" /\ req[r].resp = [code |-> 500, detail |-> req[r].exc])
            /\ (db = None /\ UsedStorage(r)) =>
                   (req[r].resp.code = 500 /\ req[r].resp.detail = "StorageUnavailable"))
    /\ [][\A r \in Reqs :
            /\ req[r].exc # None => req'[r] = req[r]
            /\ (req[r].exc = None /\ req'[r].exc # None) => store' = store]_vars

\* A list request failed on its final query and a create request on its insert.
C7_Witness ==
    /\ req[1].method = "list_portfolio" /\ req[1].exc = "StorageReadError"
    /\ Len(store["portfolioitem"]) = 2
    /\ req[2].method = "capture_lead" /\ req[2].exc = "StorageWriteError"
    /\ req[1].resp.code = 500 /\ req[2].resp.code = 500

\* C8: GET /test always ends with a 200 response and no exception, whatever the
\* state of the store: an uninitialised handle and a failing listing are reported
\* in the `database` string only; the request changes no collection.
C8_TestAlwaysSucceeds ==
    /\ [](\A r \in Reqs :
            (req[r].method = "test_database" /\ req[r].pc = "done") =>
                /\ req[r].resp.code = 200
                /\ req[r].exc = None
                /\ db = None =>
                       /\ req[r].resp.database = "Available but not initialized"
                       /\ req[r].resp.connection_status = "Not Connected"
                       /\ req[r].resp.collections = << >>
                /\ db # None =>
                       /\ req[r].resp.connection_status = "Connected"
                       /\ \/ req[r].resp.database = "Connected & Working"
                          \/ /\ req[r].resp.database = "Connected but Error: StorageReadError"
                             /\ req[r].resp.collections = << >>)
    /\ [][\A r \in Reqs :
            (req[r].pc = "test" /\ req'[r] # req[r]) =>
                /\ req'[r].pc = "done"
                /\ store' = store
                /\ req'[r].resp.database = "Connected & Working" =>
                       \A c \in Collections :
                           (store[c] # << >>) <=>
                               \E k \in 1..Len(req'[r].resp.collections) :
                                   req'[r].resp.collections[k] = c]_vars

\* With a live handle, one diagnostic request listed the collections and another
\* reported the failure of the listing.
C8_Witness ==
    /\ req[1].method = "test_database" /\ req[1].resp.code = 200
    /\ req[1].resp.database = "Connected but Error: StorageReadError"
    /\ req[2].method = "test_database" /\ req[2].resp.code = 200
    /\ req[2].resp.database = "Connected & Working"

\* The diagnostic request answered 200 although the handle is not initialised.
C8_WitnessUninitialised ==
    /\ db = None
    /\ req[1].method = "test_database" /\ req[1].resp.code = 200
    /\ req[1].resp.database = "Available but not initialized"

Writer ==
    [course |-> "list_courses", portfolioitem |-> "list_portfolio",
     inquiry |-> "create_inquiry", lead |-> "capture_lead"]

WriterPc == [course |-> "seed", portfolioitem |-> "seed", inquiry |-> "insert", lead |-> "insert"]

\* C9: every step keeps each collection's documents and adds at most one; a
\* collection grows only by the seeding step of its own list endpoint (course,
\* portfolioitem) or the insert of its own create endpoint (inquiry, lead), the
\* other collections staying as they are; and the inquiry and lead collections
\* hold exactly one document per successful request of their endpoint.
C9_OnlyCreatedByOwnEndpoint ==
    /\ [][\A c \in Collections :
            /\ IsPrefix(store[c], store'[c])
            /\ Len(store'[c]) <= Len(store[c]) + 1
            /\ store'[c] # store[c] =>
                   /\ \A c2 \in Collections \ {c} : store'[c2] = store[c2]
                   /\ \E r \in Reqs :
                          /\ req'[r] # req[r]
                          /\ req[r].method = Writer[c]
                          /\ req[r].pc = WriterPc[c]]_vars
    /\ [](\A c \in {"inquiry", "lead"} :
            Len(store[c]) =
                Cardinality({r \in Reqs : /\ req[r].method = Writer[c]
                                          /\ req[r].pc = "done"
                                          /\ req[r].resp.code = 200}))

\* A lead was captured and the portfolio collection seeded, each by its endpoint.
C9_Witness ==
    /\ req[1].method = "capture_lead" /\ req[1].resp.code = 200
    /\ Len(store["lead"]) = 1
    /\ req[2].method = "list_portfolio" /\ req[2].pc = "done"
    /\ Len(store["portfolioitem"]) = 2
    /\ store["course"] = << >> /\ store["inquiry"] = << >>

\* Collection c holds documents but not every sample, and no request is seeding it.
Partial(c) ==
    /\ store[c] # << >>
    /\ \E s \in SampleSet(c) : Copies(c, s) = 0
    /\ \A q \in Reqs : ~(req[q].method = ListEndpoint[c] /\ req[q].pc = "seed")

====
